---- MODULE Spec2Model ----
(***************************************************************************)
(* Charge bookkeeping of tenpy/linalg/charges.pyx: ChargeInfo, LegCharge   *)
(* and LegPipe.  Arrays are sequences; a 2D charge array is a sequence of  *)
(* rows.  Positions of a sequence are 1-based, the block indices, flat     *)
(* indices and permutations stored in them keep the 0-based values of the  *)
(* source.                                                                 *)
(***************************************************************************)
EXTENDS Integers, Sequences, FiniteSets, TLC

VARIABLES
    leg,      \* the LegCharge last produced (the receiver of the next call)
    recv,     \* the receiver of the last call
    ctor,     \* the constructor that built recv, "derived" once an operation acted
    op,       \* the last call
    arg,      \* its argument
    out,      \* what it returned besides the leg, or the error it raised
    other,    \* the second leg of test_equal / test_contractible
    alias,    \* which arrays `other` shares with `leg` (object identity)
    inlegs,   \* the legs handed to LegPipe(...)
    pipe,     \* the LegPipe built from them
    chi,      \* the ChargeInfo of the make_valid calls
    heap      \* the objects and arrays in memory, where object identity matters

vars == <<leg, recv, ctor, op, arg, out, other, alias, inlegs, pipe, chi, heap>>

None == "none"

(***************************************************************************)
(* Bounds of the model.                                                    *)
(***************************************************************************)
MaxBlocks == 3      \* blocks of a constructed leg
MaxIndLen == 4      \* flat length of a constructed leg
MaxRows == 6        \* rows of a pipe's q_map
MaxVal == 3         \* |entry| of a charge array handed to make_valid

(***************************************************************************)
(* numpy / python helpers                                                  *)
(***************************************************************************)
arange(n) == [k \in 1..n |-> k - 1]

\* a[idx] with an index array (advanced indexing, a copy)
Take(a, idx) == [k \in 1..Len(idx) |-> a[idx[k] + 1]]

RECURSIVE SeqSum(_)
SeqSum(s) == IF Len(s) = 0 THEN 0 ELSE s[Len(s)] + SeqSum(SubSeq(s, 1, Len(s) - 1))

RECURSIVE SeqProd(_)
SeqProd(s) == IF Len(s) = 0 THEN 1 ELSE s[Len(s)] * SeqProd(SubSeq(s, 1, Len(s) - 1))

\* np.append([0], np.cumsum(block_sizes))
cumsum0(block_sizes) ==
    [k \in 1..(Len(block_sizes) + 1) |-> SeqSum(SubSeq(block_sizes, 1, k - 1))]

\* np.nonzero(flags)[0]: the 0-based positions holding TRUE, increasing
RECURSIVE nonzero(_)
nonzero(flags) ==
    IF Len(flags) = 0 THEN <<>>
    ELSE LET n == Len(flags)
             head == nonzero(SubSeq(flags, 1, n - 1))
         IN  IF flags[n] THEN Append(head, n - 1) ELSE head

\* the % of C (cython.cdivision(True)): the result has the sign of the dividend
\* row a strictly before row b in lexicographic order
RowLess(a, b) ==
    \E j \in 1..Len(a) : a[j] < b[j] /\ \A i \in 1..(j - 1) : a[i] = b[i]

\* tools.misc.lexsort(charges.T): the stable permutation that sorts the rows
lexsort(charges) ==
    LET n == Len(charges)
        rank(i) == Cardinality({j \in 1..n :
                       \/ RowLess(charges[j], charges[i])
                       \/ (charges[j] = charges[i] /\ j < i)})
    IN  [k \in 1..n |-> (CHOOSE i \in 1..n : rank(i) = k - 1) - 1]

\* tools.misc.inverse_permutation(perm)
inverse_permutation(perm) ==
    [k \in 1..Len(perm) |-> (CHOOSE i \in 1..Len(perm) : perm[i] = k - 1) - 1]

\* bisect.bisect(a, x): binary search for the insertion point right of x
RECURSIVE bisect_loop(_, _, _, _)
bisect_loop(a, x, lo, hi) ==
    IF lo < hi
    THEN LET mid == (lo + hi) \div 2
         IN  IF x < a[mid + 1] THEN bisect_loop(a, x, lo, mid)
                               ELSE bisect_loop(a, x, mid + 1, hi)
    ELSE lo

bisect(a, x) == bisect_loop(a, x, 0, Len(a))

(***************************************************************************)
(* ChargeInfo                                                              *)
(***************************************************************************)
ChargeInfo(mod, names) == [qnumber |-> Len(mod), mod |-> mod, names |-> names]

ChargeInfo_test_sanity(self) ==
    /\ Len(self.names) = self.qnumber
    /\ \A j \in 1..Len(self.mod) : ~(self.mod[j] < 0)

(***************************************************************************)
(* QTYPE_t is np.int_t, a C long of 64 bits on LP64 builds, and check_valid *)
(* reads entries into a C int of 32 bits.  A wide value <<hi, lo>> stands  *)
(* for hi * Limb + lo with 0 <= lo < Limb, so that values beyond 32 bits   *)
(* are at hand.                                                            *)
(***************************************************************************)
Limb == 65536

wide(n) == <<n \div Limb, n % Limb>>

narrow(w) == w[1] * Limb + w[2]

wlt(a, b) == a[1] < b[1] \/ (a[1] = b[1] /\ a[2] < b[2])

wadd(a, b) ==
    LET s == a[2] + b[2]
    IN  <<a[1] + b[1] + (s \div Limb), s % Limb>>

wneg(a) == IF a[2] = 0 THEN <<0 - a[1], 0>> ELSE <<0 - a[1] - 1, Limb - a[2]>>

\* a % q for 0 <= a and 0 < q
RECURSIVE wrem(_, _)
wrem(a, q) ==
    IF wlt(a, q) THEN a
    ELSE LET r == wrem(a, wadd(q, q))
         IN  IF wlt(r, q) THEN r ELSE wadd(r, wneg(q))

\* the C remainder a % q under cdivision: the sign follows a
CMod(a, q) == IF a[1] >= 0 THEN wrem(a, q) ELSE wneg(wrem(wneg(a), q))

\* conversion of a QTYPE_t to a C int: the low 32 bits, as a signed value
c_int(a) == <<((a[1] + 32768) % Limb) - 32768, a[2]>>

\* np.asarray(charges, dtype=QTYPE) and back, for arrays of one-limb integers
wide1D(charges) == [j \in 1..Len(charges) |-> wide(charges[j])]

wide2D(charges) == [i \in 1..Len(charges) |-> wide1D(charges[i])]

narrow2D(charges) ==
    [i \in 1..Len(charges) |-> [j \in 1..Len(charges[i]) |-> narrow(charges[i][j])]]

\* the ChargeInfo with its mod as QTYPE_t values
wide_mod(self) == [self EXCEPT !.mod = wide1D(self.mod)]

\* the next three take a ChargeInfo with a wide mod and arrays of wide values
make_valid_entry(q, c) ==
    IF q = wide(1) THEN c
    ELSE LET r == CMod(c, q) IN IF wlt(r, wide(0)) THEN wadd(r, q) ELSE r

make_valid_1D(self, charges) ==
    [j \in 1..self.qnumber |-> make_valid_entry(self.mod[j], charges[j])]

make_valid_2D(self, charges) ==
    [i \in 1..Len(charges) |->
        [j \in 1..self.qnumber |-> make_valid_entry(self.mod[j], charges[i][j])]]

\* make_valid(charges) for an array x = [ndim, val]; charges = None and the
\* ValueError for other dimensions are left out
make_valid(self, x) ==
    IF x.ndim = 1 THEN [ndim |-> 1, val |-> make_valid_1D(self, x.val)]
    ELSE [ndim |-> 2, val |-> make_valid_2D(self, x.val)]

\* x = charges[i, j] goes through the C int x before it is compared
check_valid(self, charges) ==
    \A j \in 1..self.qnumber :
        self.mod[j] = wide(1) \/
        \A i \in 1..Len(charges) :
            LET x == c_int(charges[i][j])
            IN  ~(wlt(x, wide(0)) \/ ~wlt(x, self.mod[j]))

\* np.all(a == b) for 1D arrays, with numpy's broadcasting of a length-1 array
np_all_equal(a, b) ==
    IF Len(a) = Len(b) THEN \A j \in 1..Len(a) : a[j] = b[j]
    ELSE IF Len(a) = 1 THEN \A j \in 1..Len(b) : a[1] = b[j]
    ELSE IF Len(b) = 1 THEN \A j \in 1..Len(a) : a[j] = b[1]
    ELSE FALSE

Min2(a, b) == IF a < b THEN a ELSE b

ChargeInfo_equal(self, o) ==
    \/ self = o
    \/ /\ np_all_equal(self.mod, o.mod)
       /\ \A j \in 1..Min2(Len(self.names), Len(o.names)) :
            ~(o.names[j] # self.names[j] /\ self.names[j] # "" /\ o.names[j] # "")

(***************************************************************************)
(* shared row utilities                                                    *)
(***************************************************************************)
\* _c_find_row_differences(qflat), M the number of columns.  With no row and
\* M > 0 the final res[n] = L writes index 1 of a length-1 array.
row_changes(qflat) ==
    [i \in 1..(Len(qflat) + 1) |->
        i = 1 \/ i = Len(qflat) + 1 \/ qflat[i - 1] # qflat[i]]

c_find_row_differences(qflat, M) ==
    IF M = 0 THEN [err |-> None, res |-> <<0, Len(qflat)>>]
    ELSE IF Len(qflat) = 0 THEN [err |-> "IndexError", res |-> <<>>]
    ELSE [err |-> None, res |-> nonzero(row_changes(qflat))]

(***************************************************************************)
(* LegCharge                                                               *)
(***************************************************************************)
set_charges(self, charges) ==
    [self EXCEPT !.charges = charges, !.block_number = Len(charges)]

set_slices(self, slices) ==
    [self EXCEPT !.slices = slices, !.ind_len = slices[Len(slices)]]

set_block_sizes(self, block_sizes) == set_slices(self, cumsum0(block_sizes))

get_block_sizes(self) ==
    [k \in 1..(Len(self.slices) - 1) |-> self.slices[k + 1] - self.slices[k]]

LegCharge_test_sanity(self) ==
    /\ Len(self.slices) = self.block_number + 1
    /\ self.slices[1] = 0
    /\ \A i \in 1..Len(self.charges) : Len(self.charges[i]) = self.chinfo.qnumber
    /\ check_valid(wide_mod(self.chinfo), wide2D(self.charges))
    /\ ~(self.qconj # -1 /\ self.qconj # 1)

LegCharge_init(chargeinfo, slices, charges, qconj) ==
    [chinfo |-> chargeinfo, slices |-> slices, charges |-> charges,
     qconj |-> qconj, sorted |-> FALSE, bunched |-> FALSE,
     ind_len |-> slices[Len(slices)], block_number |-> Len(charges)]

is_sorted(self) ==
    IF self.chinfo.qnumber = 0 THEN TRUE
    ELSE lexsort(self.charges) = arange(Len(self.charges))

is_bunched(self) ==
    LET d == c_find_row_differences(self.charges, self.chinfo.qnumber)
    IN  Len(d.res) = self.block_number + 1

is_blocked(self) ==
    IF self.sorted /\ self.bunched THEN TRUE
    ELSE Cardinality({self.charges[i] : i \in 1..Len(self.charges)}) = self.block_number

from_qind(chargeinfo, slices, charges, qconj) ==
    LET res == LegCharge_init(chargeinfo, slices, charges, qconj)
    IN  [res EXCEPT !.sorted = is_sorted(res), !.bunched = is_bunched(res)]

from_qflat(chargeinfo, qflat, qconj) ==
    LET res == LegCharge_init(chargeinfo, arange(Len(qflat) + 1), qflat, qconj)
    IN  [res EXCEPT !.sorted = is_sorted(res), !.bunched = is_bunched(res)]

LegCharge_conj(self) == [self EXCEPT !.qconj = 0 - self.qconj]

to_qflat(self) ==
    [f \in 1..self.ind_len |->
        self.charges[CHOOSE q \in 1..Len(self.charges) :
                        self.slices[q] < f /\ f <= self.slices[q + 1]]]

\* sort that forgets to permute the block sizes along with the charges
sort_copy_sizes_in_place(self, perm_qind) ==
    LET cp1 == set_charges(self, Take(self.charges, perm_qind))
        cp2 == set_block_sizes(cp1, get_block_sizes(self))
    IN  [cp2 EXCEPT !.sorted = TRUE]

\* lines 571-575 of sort: the sorted shallow copy
sort_copy(self, perm_qind) ==
    LET cp1 == set_charges(self, Take(self.charges, perm_qind))
        cp2 == set_block_sizes(cp1, Take(get_block_sizes(self), perm_qind))
    IN  [cp2 EXCEPT !.sorted = TRUE]

\* lines 600-605 of bunch: the copy kept at the rows idx[:-1]
bunch_copy(self, idx) ==
    LET kept == SubSeq(idx, 1, Len(idx) - 1)
        cp1 == set_charges(self, Take(self.charges, kept))
        cp2 == set_slices(cp1, Take(self.slices, idx))
    IN  [cp2 EXCEPT !.bunched = TRUE]

LegCharge_bunch(self) ==
    IF self.bunched
    THEN [err |-> None, idx |-> arange(self.block_number + 1), leg |-> self]
    ELSE LET d == c_find_row_differences(self.charges, self.chinfo.qnumber)
         IN  IF d.err # None
             THEN [err |-> d.err, idx |-> <<>>, leg |-> self]
             ELSE IF \E k \in 1..(Len(d.res) - 1) : d.res[k] >= Len(self.charges)
             THEN [err |-> "IndexError", idx |-> <<>>, leg |-> self]
             ELSE [err |-> None, idx |-> d.res, leg |-> bunch_copy(self, d.res)]

LegCharge_sort(self, bunch) ==
    IF self.sorted /\ ((~bunch) \/ self.bunched)
    THEN [err |-> None, perm_qind |-> arange(self.block_number), leg |-> self]
    ELSE LET perm_qind == lexsort(self.charges)
             cp == sort_copy(self, perm_qind)
         IN  IF bunch
             THEN LET b == LegCharge_bunch(cp)
                  IN  [err |-> b.err, perm_qind |-> perm_qind, leg |-> b.leg]
             ELSE [err |-> None, perm_qind |-> perm_qind,
                   leg |-> [cp EXCEPT !.bunched = FALSE]]

\* [mask[b:e] for b, e in self._slice_start_stop()]
slice_masks(self, mask) ==
    [q \in 1..(Len(self.slices) - 1) |->
        SubSeq(mask, self.slices[q] + 1, self.slices[q + 1])]

\* np.sum(bm)
count_true(bm) == Cardinality({i \in 1..Len(bm) : bm[i]})

\* map_qind[keep] = keep: the kept blocks mapped to their old index
project_map_old_index(block_number, keep) ==
    [q \in 1..block_number |->
        IF \E k \in 1..Len(keep) : keep[k] = q - 1 THEN q - 1 ELSE 0 - 1]

\* map_qind = -ones; map_qind[keep] = arange(len(keep))
project_map(block_number, keep) ==
    [q \in 1..block_number |->
        IF \E k \in 1..Len(keep) : keep[k] = q - 1
        THEN (CHOOSE k \in 1..Len(keep) : keep[k] = q - 1) - 1
        ELSE 0 - 1]

LegCharge_project(self, mask) ==
    LET all_masks == slice_masks(self, mask)
        new_block_lens == [q \in 1..Len(all_masks) |-> count_true(all_masks[q])]
        keep == nonzero([q \in 1..Len(all_masks) |-> new_block_lens[q] # 0])
        cp1 == set_charges(self, Take(self.charges, keep))
        cp2 == set_block_sizes(cp1, Take(new_block_lens, keep))
    IN  [err |-> None,
         map_qind |-> project_map(self.block_number, keep),
         block_masks |-> Take(all_masks, keep),
         leg |-> [cp2 EXCEPT !.bunched = is_blocked(self)]]

\* the flat index returned as the offset, the start of the block not subtracted
locate_flat_offset(self, flat_index) ==
    LET qind == bisect(self.slices, flat_index) - 1
    IN  [err |-> None, qindex |-> qind, offset |-> flat_index]

\* lines 534-535 of get_qindex
locate(self, flat_index) ==
    LET qind == bisect(self.slices, flat_index) - 1
    IN  [err |-> None, qindex |-> qind, offset |-> flat_index - self.slices[qind + 1]]

IndexError == [err |-> "IndexError", qindex |-> 0 - 1, offset |-> 0 - 1]

get_qindex(self, flat_index) ==
    IF flat_index < 0
    THEN IF flat_index + self.ind_len < 0 THEN IndexError
         ELSE locate(self, flat_index + self.ind_len)
    ELSE IF flat_index > self.ind_len THEN IndexError
    ELSE locate(self, flat_index)

(***************************************************************************)
(* Legs: construction and the operations on one leg                        *)
(***************************************************************************)
ChargeValues(q) == IF q = 1 THEN (0 - 1)..1 ELSE 0..(q - 1)

\* the rows that are valid for a ChargeInfo
Rows(ci) ==
    {r \in [1..ci.qnumber -> UNION {ChargeValues(ci.mod[j]) : j \in 1..ci.qnumber}] :
        \A j \in 1..ci.qnumber : r[j] \in ChargeValues(ci.mod[j])}

LegChinfos == {ChargeInfo(<<3>>, <<"">>), ChargeInfo(<<2, 2>>, <<"", "">>)}

BlockSizeVecs(k) == {s \in [1..k -> 1..MaxIndLen] : SeqSum(s) <= MaxIndLen}

InitLeg ==
    /\ \E ci \in LegChinfos, qc \in {1, 0 - 1}, k \in 1..MaxBlocks :
         \/ \E s \in BlockSizeVecs(k), ch \in [1..k -> Rows(ci)] :
              /\ leg = from_qind(ci, cumsum0(s), ch, qc)
              /\ ctor = "from_qind"
         \/ \E qflat \in [1..k -> Rows(ci)] :
              /\ leg = from_qflat(ci, qflat, qc)
              /\ ctor = "from_qflat"
    /\ recv = leg
    /\ op = "idle" /\ arg = None /\ out = None
    /\ other = None /\ alias = None /\ inlegs = None /\ pipe = None /\ chi = None
    /\ heap = None

\* A call on the held leg: the receiver, the argument and the outputs are recorded.
Called(name, a, r) ==
    /\ op = "idle"
    /\ recv' = leg
    /\ op' = name
    /\ arg' = a
    /\ out' = r
    /\ leg' = IF r.err = None THEN r.leg ELSE leg
    /\ UNCHANGED <<ctor, other, alias, inlegs, pipe, chi, heap>>

\* The caller keeps the returned leg and goes on with it.
Continue ==
    /\ op \notin {"idle"}
    /\ op' = "idle"
    /\ recv' = leg
    /\ ctor' = IF leg = recv THEN ctor ELSE "derived"
    /\ arg' = None
    /\ out' = None
    /\ UNCHANGED <<leg, other, alias, inlegs, pipe, chi, heap>>

Sort == \E b \in BOOLEAN :
    LET r == LegCharge_sort(leg, b)
    IN  Called("sort", b, [err |-> r.err, perm_qind |-> r.perm_qind, leg |-> r.leg])

Bunch ==
    LET r == LegCharge_bunch(leg)
    IN  Called("bunch", None, r)

Project == \E mask \in [1..leg.ind_len -> BOOLEAN] :
    Called("project", mask, LegCharge_project(leg, mask))

Conj == Called("conj", None, [err |-> None, leg |-> LegCharge_conj(leg)])

GetQindex == \E flat_index \in (0 - leg.ind_len - 2)..(leg.ind_len + 2) :
    LET r == get_qindex(leg, flat_index)
    IN  Called("get_qindex", flat_index,
               [err |-> r.err, qindex |-> r.qindex, offset |-> r.offset, leg |-> leg])

NextLeg == Sort \/ Bunch \/ Project \/ Conj \/ GetQindex \/ Continue

SpecLeg == InitLeg /\ [][NextLeg]_vars

(***************************************************************************)
(* Properties of the operations on one leg                                 *)
(***************************************************************************)
Fresh == ctor \in {"from_qind", "from_qflat"}

BlockSize(l, k) == l.slices[k + 1] - l.slices[k]

\* the number of flat indices of leg l that carry charge row c
FlatCount(l, c) ==
    Cardinality({f \in 1..l.ind_len :
        \E q \in 1..Len(l.charges) :
            l.charges[q] = c /\ l.slices[q] < f /\ f <= l.slices[q + 1]})

NonDecreasing(charges) ==
    \A k \in 1..(Len(charges) - 1) : ~RowLess(charges[k + 1], charges[k])

\* C1: sort(bunch=True) of a leg built by from_qind or from_qflat returns a leg
\* that is fully blocked by charge: the charge rows are pairwise distinct and in
\* lexicographic order, and the block of charge c has as many indices as the
\* receiver has flat indices of charge c.
C1_SortBunchFullyBlocked ==
    (op = "sort" /\ arg = TRUE /\ Fresh) =>
        /\ out.err = None
        /\ \A k \in 1..(Len(leg.charges) - 1) : RowLess(leg.charges[k], leg.charges[k + 1])
        /\ \A k \in 1..Len(leg.charges) :
             BlockSize(leg, k) = FlatCount(recv, leg.charges[k])
        /\ \A q \in 1..Len(recv.charges) :
             \E k \in 1..Len(leg.charges) : leg.charges[k] = recv.charges[q]

\* C2: sort(bunch=False) of a leg built by from_qind or from_qflat returns a
\* permutation perm of the block indices and a leg S with S.charges[k] =
\* L.charges[perm[k]], the block sizes permuted alike, S.charges non-decreasing,
\* equal charges in their original order, S.sorted true, ind_len and qconj kept.
C2_SortPermutes ==
    (op = "sort" /\ arg = FALSE /\ Fresh) =>
        LET p == out.perm_qind
            n == recv.block_number
        IN  /\ out.err = None
            /\ Len(p) = n
            /\ {p[k] : k \in 1..n} = 0..(n - 1)
            /\ leg.block_number = n /\ Len(leg.charges) = n /\ Len(leg.slices) = n + 1
            /\ \A k \in 1..n :
                 /\ leg.charges[k] = recv.charges[p[k] + 1]
                 /\ BlockSize(leg, k) = BlockSize(recv, p[k] + 1)
            /\ leg.slices[1] = 0
            /\ NonDecreasing(leg.charges)
            /\ \A k, l \in 1..n :
                 (k < l /\ leg.charges[k] = leg.charges[l]) => p[k] < p[l]
            /\ leg.sorted
            /\ leg.ind_len = recv.ind_len
            /\ leg.qconj = recv.qconj

C2_Witness ==
    /\ op = "sort" /\ arg = FALSE /\ Fresh /\ out.err = None
    /\ out.perm_qind = <<0, 2, 1>>
    /\ BlockSize(recv, 1) # BlockSize(recv, 3)
    /\ recv.charges[1] = recv.charges[3]

\* C3: bunch() of a leg whose bunched flag is false returns idx, strictly
\* increasing from 0 to block_number, idx[:-1] the blocks that start a run of
\* equal charges, and a leg with charges[idx[:-1]], slices[idx], no two adjacent
\* equal charges, bunched true, the same ind_len and the same charge per index.
C3_BunchMergesRuns ==
    (op = "bunch" /\ ~recv.bunched) =>
        /\ out.err = None
        /\ LET idx == out.idx
               m == Len(idx)
           IN  /\ m >= 1
               /\ idx[1] = 0
               /\ idx[m] = recv.block_number
               /\ \A k \in 1..(m - 1) : idx[k] < idx[k + 1]
               /\ {idx[k] : k \in 1..(m - 1)} =
                    {q \in 0..(recv.block_number - 1) :
                        q = 0 \/ recv.charges[q + 1] # recv.charges[q]}
               /\ leg.charges = [k \in 1..(m - 1) |-> recv.charges[idx[k] + 1]]
               /\ leg.slices = [k \in 1..m |-> recv.slices[idx[k] + 1]]
               /\ \A k \in 1..(Len(leg.charges) - 1) : leg.charges[k] # leg.charges[k + 1]
               /\ leg.bunched
               /\ leg.ind_len = recv.ind_len
               /\ to_qflat(leg) = to_qflat(recv)

\* C4: get_qindex raises the index error for every flat index outside
\* [-ind_len, ind_len), flat_index = ind_len included, and returns a block index
\* in 0..block_number-1 for every flat index inside.
C4_GetQindexRange ==
    (op = "get_qindex") =>
        IF (0 - recv.ind_len) <= arg /\ arg < recv.ind_len
        THEN out.err = None /\ 0 <= out.qindex /\ out.qindex < recv.block_number
        ELSE out.err = "IndexError"

\* C5: get_qindex inverts the reconstruction of a flat index: the index
\* slices[q] + off with 0 <= off < size of block q resolves to (q, off), and the
\* negative index i - ind_len resolves as i does.
C5_GetQindexInverse ==
    (op = "get_qindex" /\ (0 - recv.ind_len) <= arg /\ arg < recv.ind_len) =>
        LET i == IF arg < 0 THEN arg + recv.ind_len ELSE arg
        IN  /\ out.err = None
            /\ \A q \in 1..recv.block_number :
                 \A off \in 0..(BlockSize(recv, q) - 1) :
                    (recv.slices[q] + off = i) =>
                        (out.qindex = q - 1 /\ out.offset = off)

C5_Witness ==
    /\ op = "get_qindex" /\ arg < 0 /\ out.err = None
    /\ out.qindex = 1 /\ out.offset = 1
    /\ recv.block_number = 3

\* C6: project(mask) returns map_qind, block_masks and a leg P over the surviving
\* indices: the blocks of the receiver with a surviving index, in their order,
\* each with its charge and its number of surviving indices; map_qind[q] is the
\* new index of block q or -1; block_masks[k] is the mask of the k-th surviving
\* block; qconj is kept; the all-true mask changes nothing.
Surviving(l, mask, q) ==
    Cardinality({f \in (l.slices[q] + 1)..l.slices[q + 1] : mask[f]})

C6_Project ==
    (op = "project") =>
        LET mask == arg
            n == recv.block_number
            kept == {q \in 1..n : Surviving(recv, mask, q) > 0}
            mq == out.map_qind
        IN  /\ out.err = None
            /\ leg.ind_len = Cardinality({f \in 1..recv.ind_len : mask[f]})
            /\ leg.block_number = Cardinality(kept)
            /\ Len(leg.charges) = Cardinality(kept)
            /\ Len(leg.slices) = Cardinality(kept) + 1
            /\ leg.slices[1] = 0
            /\ leg.slices[Len(leg.slices)] = leg.ind_len
            /\ Len(mq) = n
            /\ Len(out.block_masks) = Cardinality(kept)
            /\ \A q \in 1..n :
                 IF q \in kept
                 THEN /\ mq[q] = Cardinality({r \in kept : r < q})
                      /\ leg.charges[mq[q] + 1] = recv.charges[q]
                      /\ BlockSize(leg, mq[q] + 1) = Surviving(recv, mask, q)
                      /\ out.block_masks[mq[q] + 1] =
                           SubSeq(mask, recv.slices[q] + 1, recv.slices[q + 1])
                 ELSE mq[q] = 0 - 1
            /\ leg.qconj = recv.qconj
            /\ (\A f \in 1..recv.ind_len : mask[f]) =>
                 /\ leg.slices = recv.slices
                 /\ leg.charges = recv.charges
                 /\ mq = arange(n)

C6_Witness ==
    /\ op = "project" /\ out.err = None
    /\ recv.block_number = 3 /\ recv.ind_len = 4
    /\ out.map_qind = <<0, 0 - 1, 1>>
    /\ leg.ind_len = 2
    /\ \E f \in 1..recv.ind_len : arg[f] /\ BlockSize(recv, 1) = 2 /\ ~arg[1]

(***************************************************************************)
(* Comparing two legs: test_equal and test_contractible                    *)
(***************************************************************************)
\* self.charges * self.qconj
scaled(self) ==
    [i \in 1..Len(self.charges) |->
        [j \in 1..Len(self.charges[i]) |-> self.charges[i][j] * self.qconj]]

\* the shortcut of line 494 taken on shared charges whatever the two qconj are
test_equal_shortcut_ignores_qconj(self, o, al) ==
    IF ~ChargeInfo_equal(self.chinfo, o.chinfo) THEN "ValueError"
    ELSE IF al.charges /\ (al.slices \/ self.slices = o.slices) THEN None
    ELSE IF self.slices # o.slices \/ scaled(self) # scaled(o) THEN "ValueError"
    ELSE None

\* test_equal(self, other); al tells which arrays of other are self's own
\* (`is`).  The result is the error raised, None when the call returns.
test_equal(self, o, al) ==
    IF ~ChargeInfo_equal(self.chinfo, o.chinfo) THEN "ValueError"
    ELSE IF al.charges /\ self.qconj = o.qconj /\ (al.slices \/ self.slices = o.slices)
    THEN None
    ELSE IF self.slices # o.slices \/ scaled(self) # scaled(o) THEN "ValueError"
    ELSE None

\* other.conj() is a shallow copy: it shares the arrays of other
test_contractible(self, o, al) == test_equal(self, LegCharge_conj(o), al)

CmpChinfos == {ChargeInfo(<<1>>, <<"">>), ChargeInfo(<<2>>, <<"">>),
               ChargeInfo(<<2>>, <<"parity">>)}

CmpSizeVecs(k) == {s \in [1..k -> 1..(MaxIndLen - 1)] : SeqSum(s) <= MaxIndLen - 1}

Shared == [charges |-> TRUE, slices |-> TRUE]
Unshared == [charges |-> FALSE, slices |-> FALSE]

\* other starts as the leg itself; the setup steps below derive other legs from it
InitCmp ==
    /\ \E ci \in CmpChinfos, qc \in {1, 0 - 1}, k \in 1..(MaxBlocks - 1) :
         \E sz \in CmpSizeVecs(k), ch \in [1..k -> Rows(ci)] :
            leg = from_qind(ci, cumsum0(sz), ch, qc)
    /\ other = leg
    /\ alias = Shared
    /\ recv = leg /\ ctor = "from_qind"
    /\ op = "idle" /\ arg = None /\ out = None
    /\ inlegs = None /\ pipe = None /\ chi = None
    /\ heap = None

SetOther(o, al) ==
    /\ op = "idle"
    /\ other' = o
    /\ alias' = al
    /\ UNCHANGED <<leg, recv, ctor, op, arg, out, inlegs, pipe, chi, heap>>

\* other := other.conj(), a shallow copy
OtherConj == SetOther(LegCharge_conj(other), alias)

\* other := LegCharge.from_qind(ci, other.slices, other.charges, qc): new arrays
OtherRebuild == \E ci \in CmpChinfos, qc \in {1, 0 - 1} :
    LET o == from_qind(ci, other.slices, other.charges, qc)
    IN  LegCharge_test_sanity(o) /\ SetOther(o, Unshared)

\* other := from_qind(chinfo, other.slices, make_valid(-other.charges), qconj)
OtherNegate ==
    LET neg == [i \in 1..Len(other.charges) |->
                   [j \in 1..Len(other.charges[i]) |-> 0 - other.charges[i][j]]]
    IN  SetOther(from_qind(other.chinfo, other.slices,
                           narrow2D(make_valid_2D(wide_mod(other.chinfo), wide2D(neg))),
                           other.qconj), Unshared)

\* other := from_qind with the same charges and other block sizes
OtherResize == \E sz \in CmpSizeVecs(other.block_number) :
    SetOther(from_qind(other.chinfo, cumsum0(sz), other.charges, other.qconj), Unshared)

\* other := from_qind(ChargeInfo(mod + mod, names + names), other.slices,
\*                    np.hstack([other.charges, other.charges]), other.qconj)
OtherWiden ==
    /\ other.chinfo.qnumber = 1
    /\ SetOther(from_qind(ChargeInfo(other.chinfo.mod \o other.chinfo.mod,
                                     other.chinfo.names \o other.chinfo.names),
                          other.slices,
                          [i \in 1..Len(other.charges) |->
                              other.charges[i] \o other.charges[i]],
                          other.qconj), Unshared)

\* other := other.bunch()[1]
OtherBunch ==
    LET r == LegCharge_bunch(other)
    IN  r.err = None /\ SetOther(r.leg, IF r.leg = other THEN alias ELSE Unshared)

Compared(name, r) ==
    /\ op = "idle"
    /\ op' = name
    /\ out' = [err |-> r]
    /\ UNCHANGED <<leg, recv, ctor, arg, other, alias, inlegs, pipe, chi, heap>>

TestEqual == Compared("test_equal", test_equal(leg, other, alias))

TestContractible == Compared("test_contractible", test_contractible(leg, other, alias))

NextCmp ==
    \/ OtherConj \/ OtherRebuild \/ OtherNegate \/ OtherResize \/ OtherWiden
    \/ OtherBunch
    \/ TestEqual \/ TestContractible

SpecCmp == InitCmp /\ [][NextCmp]_vars

\* -(other.charges * other.qconj)
NegScaled(self) ==
    [i \in 1..Len(self.charges) |->
        [j \in 1..Len(self.charges[i]) |-> 0 - (self.charges[i][j] * self.qconj)]]

INT_MAX == <<32767, 65535>>

\* moduli: none (1), a small one, and one beyond the range of a C int
ValidMods == {wide(1), wide(3), wadd(wadd(INT_MAX, INT_MAX), wide(2))}

ValidChinfos ==
    {ChargeInfo(<<q>>, <<"">>) : q \in ValidMods}
    \cup {ChargeInfo(<<q1, q2>>, <<"", "">>) : q1 \in ValidMods, q2 \in ValidMods}

\* entries: small ones of either sign and the ones around INT_MAX
ValEntries ==
    {wide(n) : n \in (0 - MaxVal)..MaxVal}
    \cup {INT_MAX, wadd(INT_MAX, wide(1)), wneg(wadd(INT_MAX, wide(2)))}

ValArrays(qnumber) ==
    {[ndim |-> 1, val |-> v] : v \in [1..qnumber -> ValEntries]}
    \cup {[ndim |-> 2, val |-> v] :
            v \in UNION {[1..L -> [1..qnumber -> ValEntries]] :
                            L \in {n \in 0..2 : n * qnumber <= 2}}}

InitValid ==
    /\ chi \in ValidChinfos
    /\ arg \in ValArrays(chi.qnumber)
    /\ op = "idle" /\ out = None
    /\ leg = None /\ recv = None /\ ctor = None
    /\ other = None /\ alias = None /\ inlegs = None /\ pipe = None
    /\ heap = None

\* r = chi.make_valid(x): the result is written to res = np.empty_like(x)
MakeValid ==
    /\ op = "idle"
    /\ op' = "make_valid"
    /\ out' = [res |-> make_valid(chi, arg)]
    /\ UNCHANGED <<leg, recv, ctor, arg, other, alias, inlegs, pipe, chi, heap>>

\* chi.make_valid(r)
MakeValidAgain ==
    /\ op = "make_valid"
    /\ op' = "make_valid_again"
    /\ out' = [res |-> out.res, again |-> make_valid(chi, out.res)]
    /\ UNCHANGED <<leg, recv, ctor, arg, other, alias, inlegs, pipe, chi, heap>>

\* chi.check_valid(r), which takes 2D arrays only
CheckValid ==
    /\ op = "make_valid"
    /\ out.res.ndim = 2
    /\ op' = "check_valid"
    /\ out' = [res |-> out.res, valid |-> check_valid(chi, out.res.val)]
    /\ UNCHANGED <<leg, recv, ctor, arg, other, alias, inlegs, pipe, chi, heap>>

NextValid == MakeValid \/ MakeValidAgain \/ CheckValid

SpecValid == InitValid /\ [][NextValid]_vars

Cells(x) ==
    IF x.ndim = 1 THEN {<<1, j>> : j \in 1..Len(x.val)}
    ELSE {<<i, j>> : i \in 1..Len(x.val), j \in 1..chi.qnumber}

Cell(x, ij) == IF x.ndim = 1 THEN x.val[ij[2]] ELSE x.val[ij[1]][ij[2]]

\* r is x reduced by the modulus q: r = x for q = 1, else 0 <= r < q and
\* q divides x - r
Reduced(q, x, r) ==
    IF q = wide(1) THEN r = x
    ELSE /\ ~wlt(r, wide(0))
         /\ wlt(r, q)
         /\ CMod(wadd(x, wneg(r)), q) = wide(0)

\* C8: r = make_valid(x) has the shape of x and every entry reduced by its
\* modulus (passed through for modulus 1), make_valid(r) = r, and, for a
\* matrix x, check_valid(r) is true.
C8_MakeValid ==
    (op # "idle") =>
        /\ out.res.ndim = arg.ndim
        /\ Cells(out.res) = Cells(arg)
        /\ \A ij \in Cells(arg) : Reduced(chi.mod[ij[2]], Cell(arg, ij), Cell(out.res, ij))
        /\ (op = "make_valid_again") => out.again = out.res
        /\ (op = "check_valid") => out.valid

(***************************************************************************)
(* LegPipe                                                                 *)
(***************************************************************************)
\* np.array(grid.strides)[1:] // grid.itemsize for the C-contiguous np.mgrid
pipe_strides(qshape) ==
    [l \in 1..Len(qshape) |-> SeqProd(SubSeq(qshape, l + 1, Len(qshape)))]

\* grid2.T: row j holds the block indices of the j-th combination
grid2_T(qshape) ==
    LET strides == pipe_strides(qshape)
    IN  [j \in 1..SeqProd(qshape) |->
            [l \in 1..Len(qshape) |-> ((j - 1) \div strides[l]) % qshape[l]]]

pipe_sign_without_pipe_qconj(self, i) == self.legs[i].qconj

\* sign = self.qconj * self.legs[i].qconj
pipe_sign(self, i) == self.qconj * self.legs[i].qconj

\* the block a of the loops over idx that row j0 of q_map falls into
fused_block(idx, j0) ==
    IF j0 >= idx[Len(idx)] THEN Len(idx) - 1
    ELSE CHOOSE a \in 0..(Len(idx) - 2) : idx[a + 1] <= j0 /\ j0 < idx[a + 2]

\* lines 964-970: the size of each combination of blocks
pipe_blocksizes(self, grid2T) ==
    [j \in 1..Len(grid2T) |->
        SeqProd([i \in 1..self.nlegs |->
            get_block_sizes(self.legs[i])[grid2T[j][i] + 1]])]

\* lines 973-985: the total charge of each combination of blocks
pipe_charges(self, grid2T) ==
    LET sums ==
            [j \in 1..Len(grid2T) |->
                [k \in 1..self.chinfo.qnumber |->
                    SeqSum([i \in 1..self.nlegs |->
                        pipe_sign(self, i) * self.legs[i].charges[grid2T[j][i] + 1][k]])]]
        valid(c) == narrow2D(make_valid_2D(wide_mod(self.chinfo), wide2D(c)))
    IN  IF self.chinfo.qnumber > 0 THEN valid(valid(sums)) ELSE sums

\* the rows of q_map keep the slices of the whole pipe: the start of the fused
\* block is not subtracted
pipe_finish_absolute_slices(s1, rows, perm, b, bunch) ==
    LET nblocks == Len(rows)
        s2 == IF bunch THEN set_slices(set_charges(s1, b.leg.charges), b.leg.slices)
              ELSE s1
        idx == IF bunch THEN b.idx ELSE arange(nblocks + 1)
        q_map ==
            [j \in 1..nblocks |->
                <<s1.slices[j], s1.slices[j + 1]>> \o rows[j] \o <<fused_block(idx, j - 1)>>]
    IN  [s2 EXCEPT !.strides = pipe_strides(s1.subqshape),
                   !.perm = perm,
                   !.q_map = q_map,
                   !.q_map_slices = [i \in 1..(Len(idx) - 1) |->
                                        SubSeq(q_map, idx[i] + 1, idx[i + 1])]]

\* lines 1000-1036: slices into q_map, bunching, the fused block of each row
pipe_finish(s1, rows, perm, b, bunch) ==
    LET nblocks == Len(rows)
        s2 == IF bunch THEN set_slices(set_charges(s1, b.leg.charges), b.leg.slices)
              ELSE s1
        idx == IF bunch THEN b.idx ELSE arange(nblocks + 1)
        q_map ==
            [j \in 1..nblocks |->
                LET I == fused_block(idx, j - 1)
                    a == s2.slices[I + 1]
                IN  <<s1.slices[j] - a, s1.slices[j + 1] - a>> \o rows[j] \o <<I>>]
    IN  [s2 EXCEPT !.strides = pipe_strides(s1.subqshape),
                   !.perm = perm,
                   !.q_map = q_map,
                   !.q_map_slices = [i \in 1..(Len(idx) - 1) |->
                                        SubSeq(q_map, idx[i] + 1, idx[i + 1])]]

\* a local variable: F of the value of e
Local(e, F(_)) == CHOOSE r \in {F(x) : x \in {e}} : TRUE

init_from_legs(self, sort, bunch) ==
    Local(grid2_T(self.subqshape), LAMBDA grid2T :
    Local(pipe_blocksizes(self, grid2T), LAMBDA blocksizes0 :
    Local(pipe_charges(self, grid2T), LAMBDA charges0 :
    Local(lexsort(charges0), LAMBDA perm_qind :
    Local(IF sort THEN Take(grid2T, perm_qind) ELSE grid2T, LAMBDA rows :
    Local(IF sort THEN Take(charges0, perm_qind) ELSE charges0, LAMBDA charges :
    Local(IF sort THEN Take(blocksizes0, perm_qind) ELSE blocksizes0, LAMBDA blocksizes :
    Local(IF sort THEN [none |-> FALSE, val |-> inverse_permutation(perm_qind)]
          ELSE [none |-> TRUE, val |-> <<>>], LAMBDA perm :
    Local(set_block_sizes([set_charges(self, charges) EXCEPT !.sorted = sort],
                          blocksizes), LAMBDA s1 :
    Local(LegCharge_bunch(s1), LAMBDA b :
        pipe_finish(s1, rows, perm, b, bunch)))))))))))

LegPipe_test_sanity(self) ==
    /\ LegCharge_test_sanity(self)
    /\ \A i \in 1..Len(self.legs) : ChargeInfo_equal(self.legs[i].chinfo, self.chinfo)
    /\ self.subshape = [i \in 1..Len(self.legs) |-> self.legs[i].ind_len]
    /\ self.subqshape = [i \in 1..Len(self.legs) |-> self.legs[i].block_number]

\* LegPipe(legs, qconj, sort, bunch): the pipe, or the error of its test_sanity
LegPipe(legs, qconj, sort, bunch) ==
    LET chinfo == legs[1].chinfo
        base == LegCharge_init(chinfo, <<0, 1>>, <<[k \in 1..chinfo.qnumber |-> 0]>>, qconj)
        self == [chinfo |-> base.chinfo, slices |-> base.slices, charges |-> base.charges,
                 qconj |-> base.qconj, sorted |-> base.sorted, bunched |-> base.bunched,
                 ind_len |-> base.ind_len, block_number |-> base.block_number,
                 legs |-> legs, nlegs |-> Len(legs),
                 subshape |-> [i \in 1..Len(legs) |-> legs[i].ind_len],
                 subqshape |-> [i \in 1..Len(legs) |-> legs[i].block_number],
                 strides |-> <<>>, perm |-> [none |-> TRUE, val |-> <<>>],
                 q_map |-> <<>>, q_map_slices |-> <<>>]
    IN  Local(init_from_legs(self, sort, bunch), LAMBDA res :
            [err |-> IF LegPipe_test_sanity(res) THEN None ELSE "ValueError",
             pipe |-> res])

map_incoming_qind_without_perm(self, qind_incoming) ==
    [r \in 1..Len(qind_incoming) |->
        SeqSum([l \in 1..self.nlegs |-> qind_incoming[r][l] * self.strides[l]])]

\* _map_incoming_qind(qind_incoming) for a 2D array of block index tuples
map_incoming_qind(self, qind_incoming) ==
    LET inds_before_perm ==
            [r \in 1..Len(qind_incoming) |->
                SeqSum([l \in 1..self.nlegs |-> qind_incoming[r][l] * self.strides[l]])]
    IN  IF self.perm.none THEN inds_before_perm
        ELSE Take(self.perm.val, inds_before_perm)

PipeChinfo == ChargeInfo(<<3>>, <<"">>)

\* block q (from 1) of an incoming leg has size 1 or 2 in turn
PipeSizes(k) == [q \in 1..k |-> 1 + ((q - 1) % 2)]

PipeLegs ==
    UNION {{from_qind(PipeChinfo, cumsum0(PipeSizes(k)), ch, qc) :
               ch \in [1..k -> Rows(PipeChinfo)], qc \in {1, 0 - 1}} :
           k \in 1..MaxBlocks}

InitPipe ==
    /\ \/ \E l1 \in PipeLegs : inlegs = <<l1>>
       \/ \E l1 \in PipeLegs, l2 \in PipeLegs :
            /\ l1.block_number * l2.block_number <= MaxRows
            /\ inlegs = <<l1, l2>>
    /\ pipe = None
    /\ op = "idle" /\ arg = None /\ out = None
    /\ leg = None /\ recv = None /\ ctor = None
    /\ other = None /\ alias = None /\ chi = None
    /\ heap = None

\* pipe = LegPipe(inlegs, qconj, sort, bunch)
MakePipe ==
    /\ op = "idle"
    /\ \E qconj \in {1, 0 - 1}, sort \in BOOLEAN, bunch \in BOOLEAN :
         \E r \in {LegPipe(inlegs, qconj, sort, bunch)} :
            /\ op' = "LegPipe"
            /\ arg' = [qconj |-> qconj, sort |-> sort, bunch |-> bunch]
            /\ out' = [err |-> r.err]
            /\ pipe' = IF r.err = None THEN r.pipe ELSE pipe
    /\ UNCHANGED <<leg, recv, ctor, other, alias, inlegs, chi, heap>>

\* the tuples of block indices of the incoming legs, in row-major order
BlockTuples(qshape) == grid2_T(qshape)

\* pipe._map_incoming_qind(qind_incoming) for all tuples, in row-major order
\* or last one first
MapIncomingQind ==
    /\ op = "LegPipe"
    /\ out.err = None
    /\ LET all == BlockTuples(pipe.subqshape)
           n == Len(all)
       IN  \E qind_incoming \in {all, [j \in 1..n |-> all[n + 1 - j]]} :
             /\ arg' = qind_incoming
             /\ out' = [err |-> None, res |-> map_incoming_qind(pipe, qind_incoming)]
    /\ op' = "_map_incoming_qind"
    /\ UNCHANGED <<leg, recv, ctor, other, alias, inlegs, pipe, chi, heap>>

NextPipe == MakePipe \/ MapIncomingQind

SpecPipe == InitPipe /\ [][NextPipe]_vars

\* the part q_map[j, 2:2+nlegs] of a row of q_map
RowTuple(P, row) == SubSeq(row, 3, 2 + P.nlegs)

\* C9: in a pipe just built, every row (b, e, i_1..i_n, I) of q_map has
\* charges[I] = make_valid(qconj * sum_l legs[l].charges[i_l] * legs[l].qconj).
C9_FusionRule ==
    (op # "idle" /\ out.err = None) =>
        \A j \in 1..Len(pipe.q_map) :
            LET row == pipe.q_map[j]
                I == row[Len(row)]
                t == RowTuple(pipe, row)
                total == [k \in 1..pipe.chinfo.qnumber |->
                            pipe.qconj * SeqSum([l \in 1..pipe.nlegs |->
                                pipe.legs[l].charges[t[l] + 1][k] * pipe.legs[l].qconj])]
            IN  /\ I \in 0..(pipe.block_number - 1)
                /\ wide1D(pipe.charges[I + 1])
                     = make_valid_1D(wide_mod(pipe.chinfo), wide1D(total))

\* a sorted and bunched pipe of qconj -1 over two legs of opposite qconj, in
\* which several rows share a fused block of charge 1
C9_Witness ==
    /\ op = "LegPipe" /\ out.err = None
    /\ arg = [qconj |-> 0 - 1, sort |-> TRUE, bunch |-> TRUE]
    /\ pipe.nlegs = 2
    /\ pipe.legs[1].qconj = 1 /\ pipe.legs[2].qconj = 0 - 1
    /\ pipe.block_number < Len(pipe.q_map)
    /\ \E j \in 1..(Len(pipe.q_map) - 1) :
         /\ pipe.q_map[j][5] = pipe.q_map[j + 1][5]
         /\ pipe.charges[pipe.q_map[j][5] + 1] = <<1>>
         /\ pipe.legs[1].charges[pipe.q_map[j][3] + 1] = <<2>>

\* C10: q_map has prod(subqshape) rows, every tuple of block indices is in
\* exactly one of them, _strides are the row-major strides, and
\* _map_incoming_qind returns for each tuple handed in the index of its row.
C10_MapIncomingQind ==
    (op # "idle" /\ out.err = None) =>
        /\ Len(pipe.q_map) = SeqProd(pipe.subqshape)
        /\ \A l \in 1..pipe.nlegs :
             pipe.strides[l] = IF l = pipe.nlegs THEN 1
                               ELSE pipe.strides[l + 1] * pipe.subqshape[l + 1]
        /\ \A t \in [1..pipe.nlegs -> 0..(MaxRows - 1)] :
             (\A l \in 1..pipe.nlegs : t[l] < pipe.subqshape[l]) =>
                Cardinality({j \in 1..Len(pipe.q_map) : RowTuple(pipe, pipe.q_map[j]) = t}) = 1
        /\ (op = "_map_incoming_qind") =>
             /\ Len(out.res) = Len(arg)
             /\ \A r \in 1..Len(arg) :
                  /\ out.res[r] \in 0..(Len(pipe.q_map) - 1)
                  /\ RowTuple(pipe, pipe.q_map[out.res[r] + 1]) = arg[r]

\* all tuples of a sorted pipe over two legs looked up in one call, the rows
\* of q_map not in row-major order
C10_Witness ==
    /\ op = "_map_incoming_qind"
    /\ pipe.nlegs = 2
    /\ ~pipe.perm.none
    /\ Len(arg) = 6
    /\ out.res # map_incoming_qind_without_perm(pipe, arg)
    /\ out.res[1] # 5

\* the rows of q_map that belong to the fused block I, in the order of q_map
RowsOfBlock(P, I) == SelectSeq(P.q_map, LAMBDA row : row[Len(row)] = I)

\* C22: in a pipe built with bunch=True, sorted or not, also when several
\* tuples of input blocks fuse to one charge: the fused-block column of q_map
\* is non-decreasing, q_map_slices[I] holds exactly the rows of fused block I,
\* the inner slice of a row is as long as the product of the sizes of its input
\* blocks, and the inner slices of a fused block tile it: the first row starts
\* at 0, every next row starts where the one before ends, the last row ends at
\* slices[I+1] - slices[I].  With bunch=False every row is its own fused block
\* and its inner slice starts at 0.
C22_QMapTiles ==
    (op = "LegPipe" /\ out.err = None) =>
        LET n == Len(pipe.q_map)
            I(j) == pipe.q_map[j][3 + pipe.nlegs]
            b(j) == pipe.q_map[j][1]
            e(j) == pipe.q_map[j][2]
            t(j) == RowTuple(pipe, pipe.q_map[j])
        IN  /\ \A j \in 1..(n - 1) : I(j) <= I(j + 1)
            /\ Len(pipe.q_map_slices) = pipe.block_number
            /\ \A k \in 1..pipe.block_number :
                 pipe.q_map_slices[k] = RowsOfBlock(pipe, k - 1)
            /\ \A j \in 1..n :
                 /\ I(j) \in 0..(pipe.block_number - 1)
                 /\ e(j) - b(j) = SeqProd([l \in 1..pipe.nlegs |->
                                      BlockSize(pipe.legs[l], t(j)[l] + 1)])
                 /\ b(j) = IF j = 1 \/ I(j - 1) # I(j) THEN 0 ELSE e(j - 1)
                 /\ (j = n \/ I(j + 1) # I(j)) =>
                        e(j) = pipe.slices[I(j) + 2] - pipe.slices[I(j) + 1]
            /\ ~arg.bunch => \A j \in 1..n : I(j) = j - 1 /\ b(j) = 0

\* a bunched pipe over two legs in which a fused block holds several rows, one
\* of them a block of more than one index that does not start the fused block
C22_Witness ==
    /\ op = "LegPipe" /\ out.err = None
    /\ arg.bunch
    /\ pipe.nlegs = 2
    /\ \E j \in 2..Len(pipe.q_map) :
         /\ pipe.q_map[j][5] = pipe.q_map[j - 1][5]
         /\ pipe.q_map[j][1] >= 2
         /\ pipe.q_map[j][2] - pipe.q_map[j][1] >= 2

(***************************************************************************)
(* LegPipe: conj and outer_conj                                            *)
(***************************************************************************)
\* conj that flips the pipe only and keeps the incoming legs as they are
LegPipe_conj_keeps_legs(self) == LegCharge_conj(self)

\* LegPipe.conj: the copy (all attributes, through __getstate__) with qconj
\* negated and every incoming leg conjugated
LegPipe_conj(self) ==
    [LegCharge_conj(self) EXCEPT
        !.legs = [l \in 1..Len(self.legs) |-> LegCharge_conj(self.legs[l])]]

\* the attributes declared cdef readonly: untyped (Python level) code can read
\* but not assign them; sorted and bunched are cdef public
ReadonlyAttrs ==
    {"ind_len", "block_number", "chinfo", "slices", "charges", "qconj",
     "nlegs", "legs", "subshape", "subqshape", "q_map", "q_map_slices",
     "_perm", "_strides"}

\* outer_conj: res = copy.copy(self) is an untyped object, so res.qconj = -1
\* is a Python level assignment
LegPipe_outer_conj(self) ==
    IF "qconj" \in ReadonlyAttrs
    THEN [err |-> "AttributeError", pipe |-> self]
    ELSE LET neg == [i \in 1..Len(self.charges) |->
                        [j \in 1..Len(self.charges[i]) |-> 0 - self.charges[i][j]]]
         IN  [err |-> None,
              pipe |-> set_charges([self EXCEPT !.qconj = 0 - 1],
                           narrow2D(make_valid_2D(wide_mod(self.chinfo), wide2D(neg))))]

\* the legs handed to the pipes whose methods are called
PipeOpLegs == {l \in PipeLegs : l.block_number <= MaxBlocks - 1}

\* the state after construction of a pipe
InitPipeOps ==
    /\ \/ \E l1 \in PipeOpLegs : inlegs = <<l1>>
       \/ \E l1 \in PipeOpLegs, l2 \in PipeOpLegs :
            /\ l1.block_number * l2.block_number <= MaxRows - 2
            /\ inlegs = <<l1, l2>>
    /\ \E qconj \in {1, 0 - 1}, sort \in BOOLEAN, bunch \in BOOLEAN :
         pipe = LegPipe(inlegs, qconj, sort, bunch).pipe
    /\ recv = pipe
    /\ ctor = "LegPipe"
    /\ op = "idle" /\ arg = None /\ out = None
    /\ leg = None /\ other = None /\ alias = None /\ chi = None
    /\ heap = None

\* a method call on the pipe: recv is the pipe as it was, out what came back
PipeCalled(name, r) ==
    /\ op = "idle"
    /\ op' = name
    /\ recv' = pipe
    /\ out' = r
    /\ UNCHANGED <<leg, ctor, arg, other, alias, inlegs, pipe, chi, heap>>

PipeConj == PipeCalled("conj", [err |-> None, pipe |-> LegPipe_conj(pipe)])

PipeOuterConj == PipeCalled("outer_conj", LegPipe_outer_conj(pipe))

\* the caller goes on with the pipe a call on a constructed pipe returned
PipeContinue ==
    /\ op \in {"conj", "outer_conj"}
    /\ out.err = None
    /\ ctor = "LegPipe"
    /\ pipe' = out.pipe
    /\ recv' = out.pipe
    /\ ctor' = "derived"
    /\ op' = "idle"
    /\ out' = None
    /\ UNCHANGED <<leg, arg, other, alias, inlegs, chi, heap>>

NextPipeOps == PipeConj \/ PipeOuterConj \/ PipeContinue

SpecPipeOps == InitPipeOps /\ [][NextPipeOps]_vars

\* the fusion rule on every row of P.q_map
FusionRule(P) ==
    \A j \in 1..Len(P.q_map) :
        LET row == P.q_map[j]
            I == row[Len(row)]
            t == RowTuple(P, row)
            total == [k \in 1..P.chinfo.qnumber |->
                        P.qconj * SeqSum([l \in 1..P.nlegs |->
                            P.legs[l].charges[t[l] + 1][k] * P.legs[l].qconj])]
        IN  wide1D(P.charges[I + 1]) = make_valid_1D(wide_mod(P.chinfo), wide1D(total))

\* C11: R = P.conj() has R.qconj = -P.qconj, the charges, slices and q_map of
\* P, every incoming leg with its qconj negated, the fusion rule on every row
\* of q_map, and R.conj() has the qconj of P on the pipe and on every leg.
C11_PipeConj ==
    (op = "conj") =>
        /\ out.err = None
        /\ out.pipe.qconj = 0 - recv.qconj
        /\ out.pipe.charges = recv.charges
        /\ out.pipe.slices = recv.slices
        /\ out.pipe.q_map = recv.q_map
        /\ Len(out.pipe.legs) = Len(recv.legs)
        /\ \A l \in 1..Len(recv.legs) : out.pipe.legs[l].qconj = 0 - recv.legs[l].qconj
        /\ FusionRule(out.pipe)
        /\ LegPipe_conj(out.pipe).qconj = recv.qconj
        /\ \A l \in 1..Len(recv.legs) :
             LegPipe_conj(out.pipe).legs[l].qconj = recv.legs[l].qconj

\* the conj of a pipe that is itself the conj of a constructed pipe of two
\* legs of opposite qconj, with a fused block of charge 1 over several rows
C11_Witness ==
    /\ op = "conj" /\ ctor = "derived"
    /\ recv.nlegs = 2
    /\ recv.legs[1].qconj # recv.legs[2].qconj
    /\ out.pipe.qconj = 0 - 1
    /\ recv.block_number < Len(recv.q_map)
    /\ \E I \in 1..recv.block_number : recv.charges[I] = <<1>>

\* C12: R = P.outer_conj() has R.qconj = -P.qconj, R.charges =
\* make_valid(-P.charges), the incoming legs of P with their qconj, the
\* fusion rule on every row of q_map, and R.outer_conj() has the qconj and
\* the charges of P.
C12_OuterConj ==
    (op = "outer_conj") =>
        /\ out.err = None
        /\ out.pipe.qconj = 0 - recv.qconj
        /\ wide2D(out.pipe.charges)
             = make_valid_2D(wide_mod(recv.chinfo),
                   wide2D([i \in 1..Len(recv.charges) |->
                       [j \in 1..Len(recv.charges[i]) |-> 0 - recv.charges[i][j]]]))
        /\ out.pipe.legs = recv.legs
        /\ FusionRule(out.pipe)
        /\ LegPipe_outer_conj(out.pipe).err = None
        /\ LegPipe_outer_conj(out.pipe).pipe.qconj = recv.qconj
        /\ LegPipe_outer_conj(out.pipe).pipe.charges = recv.charges

(***************************************************************************)
(* Constructing a LegCharge from arbitrary arguments                       *)
(***************************************************************************)
\* LegCharge(chargeinfo, slices, charges, qconj): __init__ ends in test_sanity
LegCharge_new(chargeinfo, slices, charges, qconj) ==
    LET self == LegCharge_init(chargeinfo, slices, charges, qconj)
    IN  [err |-> IF LegCharge_test_sanity(self) THEN None ELSE "ValueError",
         leg |-> self]

\* LegCharge.from_qind(chargeinfo, slices, charges, qconj)
from_qind_new(chargeinfo, slices, charges, qconj) ==
    LET r == LegCharge_new(chargeinfo, slices, charges, qconj)
    IN  IF r.err # None THEN r
        ELSE [err |-> None, leg |-> from_qind(chargeinfo, slices, charges, qconj)]

CtorChinfos == {ChargeInfo(<<3>>, <<"">>), ChargeInfo(<<1, 3>>, <<"", "">>)}

\* slices of any shape: not starting at 0, not increasing, of any length
CtorSlices == UNION {[1..n -> 0..(MaxIndLen - 1)] : n \in 1..3}

\* charge matrices of one or two rows and one or two columns, valid or not
CtorCharges ==
    UNION {[1..k -> [1..w -> {0 - 1, 0, 3}]] : k \in 1..2, w \in 1..2}

InitCtor ==
    /\ arg \in [chargeinfo : CtorChinfos, slices : CtorSlices,
                charges : CtorCharges, qconj : {0 - 1, 1, 2}]
    /\ op = "idle" /\ out = None
    /\ leg = None /\ recv = None /\ ctor = None
    /\ other = None /\ alias = None /\ inlegs = None /\ pipe = None /\ chi = None
    /\ heap = None

Constructed(name, r) ==
    /\ op = "idle"
    /\ op' = name
    /\ out' = r
    /\ UNCHANGED <<leg, recv, ctor, arg, other, alias, inlegs, pipe, chi, heap>>

NewLegCharge ==
    Constructed("LegCharge",
                LegCharge_new(arg.chargeinfo, arg.slices, arg.charges, arg.qconj))

NewFromQind ==
    Constructed("from_qind",
                from_qind_new(arg.chargeinfo, arg.slices, arg.charges, arg.qconj))

NextCtor == NewLegCharge \/ NewFromQind

SpecCtor == InitCtor /\ [][NextCtor]_vars

StrictlyIncreasing(slices) ==
    \A k \in 1..(Len(slices) - 1) : slices[k] < slices[k + 1]

\* the requirements on the arguments of the constructor other than the order
\* of the slices
CtorArgsSane(a) ==
    /\ Len(a.slices) = Len(a.charges) + 1
    /\ a.slices[1] = 0
    /\ \A i \in 1..Len(a.charges) :
         /\ Len(a.charges[i]) = a.chargeinfo.qnumber
         /\ \A j \in 1..a.chargeinfo.qnumber :
              a.chargeinfo.mod[j] = 1 \/ a.charges[i][j] \in 0..(a.chargeinfo.mod[j] - 1)
    /\ a.qconj \in {0 - 1, 1}

\* C13: LegCharge(...) and from_qind fail with a ValueError whenever slices is
\* not strictly increasing, does not start at 0 or has not block_number + 1
\* entries, a charge row has not qnumber entries or is not reduced, or qconj
\* is not +1 or -1; they succeed otherwise.
C13_CtorValidates ==
    (op \in {"LegCharge", "from_qind"}) =>
        /\ out.err \in {None, "ValueError"}
        /\ (out.err = None) <=> (CtorArgsSane(arg) /\ StrictlyIncreasing(arg.slices))

(***************************************************************************)
(* Constructing and comparing ChargeInfo                                   *)
(***************************************************************************)
\* ChargeInfo(mod, names) with names = [none, val]: __init__ fills in empty
\* names for names = None and ends in test_sanity
ChargeInfo_new(mod, names) ==
    LET self == ChargeInfo(mod, IF names.none THEN [j \in 1..Len(mod) |-> ""]
                                ELSE names.val)
    IN  [err |-> IF ChargeInfo_test_sanity(self) THEN None ELSE "ValueError",
         chinfo |-> self]

\* __richcmp__(self, other, operator): 2 is ==, 3 is !=
ChargeInfo_richcmp(self, o, operator) ==
    IF operator = 2 THEN [err |-> None, res |-> ChargeInfo_equal(self, o)]
    ELSE IF operator = 3 THEN [err |-> None, res |-> ~ChargeInfo_equal(self, o)]
    ELSE [err |-> "NotImplementedError", res |-> FALSE]

InfoMods == UNION {[1..n -> (0 - 1)..2] : n \in 0..2}

InfoNames ==
    {[none |-> TRUE, val |-> <<>>]}
    \cup {[none |-> FALSE, val |-> v] : v \in UNION {[1..n -> {"", "Sz"}] : n \in 0..2}}

InitInfo ==
    /\ arg \in [mod : InfoMods, names : InfoNames]
    /\ op = "idle" /\ out = None
    /\ leg = None /\ recv = None /\ ctor = None
    /\ other = None /\ alias = None /\ inlegs = None /\ pipe = None /\ chi = None
    /\ heap = None

\* chi = ChargeInfo(arg.mod, arg.names)
NewChargeInfo ==
    /\ op = "idle"
    /\ op' = "ChargeInfo"
    /\ out' = ChargeInfo_new(arg.mod, arg.names)
    /\ UNCHANGED <<leg, recv, ctor, arg, other, alias, inlegs, pipe, chi, heap>>

\* chi == other and chi != other for a second ChargeInfo
CompareChargeInfo ==
    /\ op = "ChargeInfo"
    /\ out.err = None
    /\ \E mod \in InfoMods, names \in InfoNames :
         \E c2 \in {ChargeInfo_new(mod, names)} :
            /\ c2.err = None
            /\ other' = c2.chinfo
    /\ chi' = out.chinfo
    /\ op' = "richcmp"
    /\ out' = [err |-> None,
               eq |-> ChargeInfo_richcmp(chi', other', 2).res,
               ne |-> ChargeInfo_richcmp(chi', other', 3).res]
    /\ UNCHANGED <<leg, recv, ctor, arg, alias, inlegs, pipe, heap>>

NextInfo == NewChargeInfo \/ CompareChargeInfo

SpecInfo == InitInfo /\ [][NextInfo]_vars

\* C14: ChargeInfo(mod, names) fails with a ValueError if the number of names
\* differs from the number of moduli or a modulus is negative or 0, and
\* succeeds otherwise, so that a constructed ChargeInfo has qnumber names and
\* every modulus >= 1.
C14_InfoValidates ==
    (op = "ChargeInfo") =>
        /\ out.err \in {None, "ValueError"}
        /\ (out.err = None) <=>
             /\ arg.names.none \/ Len(arg.names.val) = Len(arg.mod)
             /\ \A j \in 1..Len(arg.mod) : arg.mod[j] >= 1
        /\ (out.err = None) =>
             /\ Len(out.chinfo.names) = out.chinfo.qnumber
             /\ \A j \in 1..out.chinfo.qnumber : out.chinfo.mod[j] >= 1

val(h, o) ==
    LET x == h.objs[o]
    IN  [x EXCEPT !.slices = h.arrs[x.slices], !.charges = h.arrs[x.charges]]

\* a freshly allocated array (the result of indexing, np.append, np.array)
new_array(h, a) ==
    [heap |-> [h EXCEPT !.arrs = Append(@, a)], ref |-> Len(h.arrs) + 1]

new_object(h, x) ==
    [heap |-> [h EXCEPT !.objs = Append(@, x)], ref |-> Len(h.objs) + 1]

\* copy.copy through __getstate__ / __setstate__: every attribute is handed over
copy_copy(h, o) == new_object(h, h.objs[o])

\* a setter that writes into the array the object already holds
obj_set_charges_in_place(h, o, a) ==
    [h EXCEPT !.arrs[h.objs[o].charges] = h.arrs[a],
              !.objs[o].block_number = Len(h.arrs[a])]

\* _set_charges: the attribute is rebound to the array handed in
obj_set_charges(h, o, a) ==
    [h EXCEPT !.objs[o].charges = a,
              !.objs[o].block_number = Len(h.arrs[a])]

\* _set_slices
obj_set_slices(h, o, a) ==
    [h EXCEPT !.objs[o].slices = a,
              !.objs[o].ind_len = h.arrs[a][Len(h.arrs[a])]]

\* _set_block_sizes: np.append(...) is a new array
obj_set_block_sizes(h, o, block_sizes) ==
    Local(new_array(h, cumsum0(block_sizes)), LAMBDA n :
        obj_set_slices(n.heap, o, n.ref))

\* LegCharge.conj
obj_conj(h, self) ==
    Local(copy_copy(h, self), LAMBDA c :
        [heap |-> [c.heap EXCEPT !.objs[c.ref].qconj = 0 - c.heap.objs[self].qconj],
         err |-> None, res |-> c.ref])

\* LegCharge.bunch
obj_bunch(h, self) ==
    IF h.objs[self].bunched
    THEN [heap |-> h, err |-> None,
          idx |-> arange(h.objs[self].block_number + 1), res |-> self]
    ELSE
    Local(copy_copy(h, self), LAMBDA c :
    Local(c_find_row_differences(val(c.heap, self).charges,
                                 c.heap.objs[self].chinfo.qnumber), LAMBDA d :
        IF d.err # None
        THEN [heap |-> c.heap, err |-> d.err, idx |-> <<>>, res |-> self]
        ELSE IF \E k \in 1..(Len(d.res) - 1) :
                    d.res[k] >= Len(val(c.heap, c.ref).charges)
        THEN [heap |-> c.heap, err |-> "IndexError", idx |-> <<>>, res |-> self]
        ELSE
        Local(new_array(c.heap, Take(val(c.heap, c.ref).charges,
                                     SubSeq(d.res, 1, Len(d.res) - 1))), LAMBDA n1 :
        Local(obj_set_charges(n1.heap, c.ref, n1.ref), LAMBDA h1 :
        Local(new_array(h1, Take(val(h1, c.ref).slices, d.res)), LAMBDA n2 :
        Local(obj_set_slices(n2.heap, c.ref, n2.ref), LAMBDA h2 :
            [heap |-> [h2 EXCEPT !.objs[c.ref].bunched = TRUE],
             err |-> None, idx |-> d.res, res |-> c.ref]))))))

\* a sort that leaves the sorted flag of the copy as it was
mark_sorted_forgotten(h, o) == h

\* cp.sorted = True
mark_sorted(h, o) == [h EXCEPT !.objs[o].sorted = TRUE]

\* LegCharge.sort
obj_sort(h, self, bunch) ==
    IF h.objs[self].sorted /\ ((~bunch) \/ h.objs[self].bunched)
    THEN [heap |-> h, err |-> None,
          perm_qind |-> arange(h.objs[self].block_number), res |-> self]
    ELSE
    Local(lexsort(val(h, self).charges), LAMBDA perm_qind :
    Local(copy_copy(h, self), LAMBDA c :
    Local(new_array(c.heap, Take(val(c.heap, self).charges, perm_qind)), LAMBDA n1 :
    Local(obj_set_charges(n1.heap, c.ref, n1.ref), LAMBDA h1 :
    Local(obj_set_block_sizes(h1, c.ref,
              Take(get_block_sizes(val(h1, self)), perm_qind)), LAMBDA h2 :
    Local(mark_sorted(h2, c.ref), LAMBDA h3 :
        IF bunch
        THEN Local(obj_bunch(h3, c.ref), LAMBDA b :
                 [heap |-> b.heap, err |-> b.err,
                  perm_qind |-> perm_qind, res |-> b.res])
        ELSE [heap |-> [h3 EXCEPT !.objs[c.ref].bunched = FALSE],
              err |-> None, perm_qind |-> perm_qind, res |-> c.ref]))))))

\* LegCharge.project
obj_project(h, self, mask) ==
    Local(copy_copy(h, self), LAMBDA c :
    Local(slice_masks(val(c.heap, self), mask), LAMBDA all_masks :
    Local([q \in 1..Len(all_masks) |-> count_true(all_masks[q])], LAMBDA new_block_lens :
    Local(nonzero([q \in 1..Len(all_masks) |-> new_block_lens[q] # 0]), LAMBDA keep :
    Local(new_array(c.heap, Take(val(c.heap, c.ref).charges, keep)), LAMBDA n1 :
    Local(obj_set_charges(n1.heap, c.ref, n1.ref), LAMBDA h1 :
    Local(project_map(h1.objs[self].block_number, keep), LAMBDA map_qind :
    Local(obj_set_block_sizes(h1, c.ref, Take(new_block_lens, keep)), LAMBDA h2 :
        [heap |-> [h2 EXCEPT !.objs[c.ref].bunched = is_blocked(val(h2, self))],
         err |-> None, map_qind |-> map_qind,
         block_masks |-> Take(all_masks, keep), res |-> c.ref]))))))))

\* LegCharge.test_equal: `is` compares addresses
obj_test_equal(h, self, o) ==
    [heap |-> h,
     err |-> test_equal(val(h, self), val(h, o),
                        [charges |-> h.objs[self].charges = h.objs[o].charges,
                         slices |-> h.objs[self].slices = h.objs[o].slices]),
     res |-> self]


\* a LegCharge value placed in memory: np.array(...) in __init__ allocates both arrays
store_leg(h, l) ==
    Local(new_array(h, l.slices), LAMBDA s :
    Local(new_array(s.heap, l.charges), LAMBDA c :
        new_object(c.heap,
            [cls |-> "LegCharge", chinfo |-> l.chinfo, slices |-> s.ref,
             charges |-> c.ref, qconj |-> l.qconj, sorted |-> l.sorted,
             bunched |-> l.bunched, ind_len |-> l.ind_len,
             block_number |-> l.block_number])))

\* a LegPipe value placed in memory, its incoming legs being the objects legs
store_pipe(h, p, legs) ==
    Local(new_array(h, p.slices), LAMBDA s :
    Local(new_array(s.heap, p.charges), LAMBDA c :
    Local(new_array(c.heap, p.q_map), LAMBDA q :
        new_object(q.heap,
            [cls |-> "LegPipe", chinfo |-> p.chinfo, slices |-> s.ref,
             charges |-> c.ref, qconj |-> p.qconj, sorted |-> p.sorted,
             bunched |-> p.bunched, ind_len |-> p.ind_len,
             block_number |-> p.block_number,
             nlegs |-> p.nlegs, legs |-> legs, subshape |-> p.subshape,
             subqshape |-> p.subqshape, q_map |-> q.ref,
             q_map_slices |-> p.q_map_slices, perm |-> p.perm,
             strides |-> p.strides]))))

\* tuple([l.conj() for l in self.legs]) for the first k legs
RECURSIVE conj_legs(_, _, _)
conj_legs(h, legs, k) ==
    IF k = 0 THEN [heap |-> h, refs |-> <<>>]
    ELSE Local(conj_legs(h, legs, k - 1), LAMBDA p :
         Local(obj_conj(p.heap, legs[k]), LAMBDA c :
             [heap |-> c.heap, refs |-> Append(p.refs, c.res)]))

\* LegPipe.conj
obj_pipe_conj(h, self) ==
    Local(obj_conj(h, self), LAMBDA res :
    Local(conj_legs(res.heap, res.heap.objs[self].legs,
                    Len(res.heap.objs[self].legs)), LAMBDA l :
        [heap |-> [l.heap EXCEPT !.objs[res.res].legs = l.refs],
         err |-> None, res |-> res.res]))

\* LegPipe.outer_conj
obj_pipe_outer_conj(h, self) ==
    Local(copy_copy(h, self), LAMBDA c :
        IF "qconj" \in ReadonlyAttrs
        THEN [heap |-> c.heap, err |-> "AttributeError", res |-> self]
        ELSE
        Local([c.heap EXCEPT !.objs[c.ref].qconj = 0 - 1], LAMBDA h1 :
        Local(val(h1, self), LAMBDA x :
        Local(new_array(h1, narrow2D(make_valid_2D(wide_mod(x.chinfo),
                  wide2D([i \in 1..Len(x.charges) |->
                      [j \in 1..Len(x.charges[i]) |-> 0 - x.charges[i][j]]])))),
              LAMBDA n :
            [heap |-> obj_set_charges(n.heap, c.ref, n.ref),
             err |-> None, res |-> c.ref]))))

\* LegPipe.to_LegCharge
obj_to_LegCharge(h, self) ==
    Local(val(h, self), LAMBDA x :
    Local(LegCharge_new(x.chinfo, x.slices, x.charges, x.qconj), LAMBDA r :
        IF r.err # None THEN [heap |-> h, err |-> r.err, res |-> self]
        ELSE Local(store_leg(h, r.leg), LAMBDA s :
                 [heap |-> s.heap, err |-> None, res |-> s.ref])))

\* LegPipe.sort, LegPipe.bunch, LegPipe.project
obj_pipe_sort(h, self, bunch) ==
    Local(obj_to_LegCharge(h, self), LAMBDA res :
        IF res.err # None THEN res ELSE obj_sort(res.heap, res.res, bunch))

obj_pipe_bunch(h, self) ==
    Local(obj_to_LegCharge(h, self), LAMBDA res :
        IF res.err # None THEN res ELSE obj_bunch(res.heap, res.res))

obj_pipe_project(h, self, mask) ==
    Local(obj_to_LegCharge(h, self), LAMBDA res :
        IF res.err # None THEN res ELSE obj_project(res.heap, res.res, mask))

\* o.conj() as the class of o defines it
obj_call_conj(h, o) ==
    IF h.objs[o].cls = "LegPipe" THEN obj_pipe_conj(h, o) ELSE obj_conj(h, o)

\* LegCharge.test_contractible: other.conj() is a new object
obj_test_contractible(h, self, o) ==
    Local(obj_call_conj(h, o), LAMBDA c :
        [heap |-> c.heap, err |-> obj_test_equal(c.heap, self, c.res).err,
         res |-> self])

\* the number of objects up to which further calls are followed
MaxObjs == 4

EmptyHeap == [objs |-> <<>>, arrs |-> <<>>]

\* a leg L and M = L.conj(), which shares the arrays of L
HeapOfLeg(l) == obj_conj(store_leg(EmptyHeap, l).heap, 1).heap

\* the incoming legs followed by the pipe built from them
RECURSIVE store_legs(_, _, _)
store_legs(h, legs, k) ==
    IF k = 0 THEN h ELSE store_leg(store_legs(h, legs, k - 1), legs[k]).heap

HeapOfPipe(legs, p) ==
    store_pipe(store_legs(EmptyHeap, legs, Len(legs)), p, [i \in 1..Len(legs) |-> i]).heap

FrameLegs == PipeOpLegs

InitHeap ==
    /\ \/ \E l \in FrameLegs : heap = HeapOfLeg(l) /\ ctor = "LegCharge"
       \/ \E l1 \in FrameLegs, qconj \in {1, 0 - 1}, sort \in BOOLEAN, bunch \in BOOLEAN :
            /\ heap = HeapOfPipe(<<l1>>, LegPipe(<<l1>>, qconj, sort, bunch).pipe)
            /\ ctor = "LegPipe"
       \/ \E l1 \in FrameLegs, l2 \in FrameLegs :
            /\ l1.block_number * l2.block_number = 1
            /\ \E qconj \in {1, 0 - 1}, sort \in BOOLEAN, bunch \in BOOLEAN :
                 heap = HeapOfPipe(<<l1, l2>>, LegPipe(<<l1, l2>>, qconj, sort, bunch).pipe)
            /\ ctor = "LegPipe"
    /\ op = "idle" /\ recv = None /\ arg = None /\ out = None
    /\ leg = None /\ other = None /\ alias = None /\ inlegs = None
    /\ pipe = None /\ chi = None

\* a method call on the object self: the memory afterwards is what the call left
HeapCalled(name, self, a, r) ==
    /\ heap' = r.heap
    /\ recv' = self
    /\ op' = name
    /\ arg' = a
    /\ out' = [err |-> r.err, res |-> r.res]
    /\ UNCHANGED <<leg, ctor, other, alias, inlegs, pipe, chi>>

Receivers == IF Len(heap.objs) < MaxObjs THEN 1..Len(heap.objs) ELSE {}

IsPipe(o) == heap.objs[o].cls = "LegPipe"

HeapSort == \E self \in Receivers, b \in BOOLEAN :
    HeapCalled("sort", self, b,
               IF IsPipe(self) THEN obj_pipe_sort(heap, self, b)
               ELSE obj_sort(heap, self, b))

HeapBunch == \E self \in Receivers :
    HeapCalled("bunch", self, None,
               IF IsPipe(self) THEN obj_pipe_bunch(heap, self)
               ELSE obj_bunch(heap, self))

HeapProject == \E self \in Receivers :
    \E mask \in [1..heap.objs[self].ind_len -> BOOLEAN] :
        HeapCalled("project", self, mask,
                   IF IsPipe(self) THEN obj_pipe_project(heap, self, mask)
                   ELSE obj_project(heap, self, mask))

HeapConj == \E self \in Receivers :
    HeapCalled("conj", self, None, obj_call_conj(heap, self))

HeapOuterConj == \E self \in Receivers :
    /\ IsPipe(self)
    /\ HeapCalled("outer_conj", self, None, obj_pipe_outer_conj(heap, self))

HeapTestEqual == \E self \in Receivers, o \in Receivers :
    HeapCalled("test_equal", self, o, obj_test_equal(heap, self, o))

HeapTestContractible == \E self \in Receivers, o \in Receivers :
    HeapCalled("test_contractible", self, o, obj_test_contractible(heap, self, o))

\* the caller sorts the leg it just got from sort once more, the same way
HeapSortAgain ==
    /\ op = "sort" /\ out.err = None
    /\ LET S == out.res
           r == IF IsPipe(S) THEN obj_pipe_sort(heap, S, arg) ELSE obj_sort(heap, S, arg)
       IN  /\ heap' = r.heap
           /\ recv' = S
           /\ op' = "sort_again"
           /\ arg' = [bunch |-> arg, before |-> val(heap, S)]
           /\ out' = [err |-> r.err, res |-> r.res,
                      perm_qind |-> IF r.err = None THEN r.perm_qind ELSE <<>>]
    /\ UNCHANGED <<leg, ctor, other, alias, inlegs, pipe, chi>>

\* the caller bunches the leg it just got from bunch once more
HeapBunchAgain ==
    /\ op = "bunch" /\ out.err = None
    /\ LET C == out.res
           r == IF IsPipe(C) THEN obj_pipe_bunch(heap, C) ELSE obj_bunch(heap, C)
       IN  /\ heap' = r.heap
           /\ recv' = C
           /\ op' = "bunch_again"
           /\ arg' = [before |-> val(heap, C)]
           /\ out' = [err |-> r.err, res |-> r.res,
                      idx |-> IF r.err = None THEN r.idx ELSE <<>>]
    /\ UNCHANGED <<leg, ctor, other, alias, inlegs, pipe, chi>>

NextHeap ==
    \/ HeapSort
    \/ HeapBunch
    \/ HeapProject
    \/ HeapConj
    \/ HeapOuterConj
    \/ HeapTestEqual
    \/ HeapTestContractible
    \/ HeapSortAgain
    \/ HeapBunchAgain

SpecHeap == InitHeap /\ [][NextHeap]_vars

\* everything that can be read from the object o: its attributes, the content
\* of its arrays and, for a pipe, of its q_map
Snapshot(h, o) ==
    LET x == val(h, o)
    IN  IF x.cls = "LegPipe" THEN [x EXCEPT !.q_map = h.arrs[x.q_map]] ELSE x

\* C16: no call of sort, bunch, project, conj, outer_conj, test_equal or
\* test_contractible, returning or raising, changes anything that can be read
\* from an object that existed before the call: the receiver, every leg that
\* shares its arrays (such as M = L.conj()), a pipe with its q_map and each of
\* its incoming legs keep all their attributes and array contents.
C16_FrameEffect ==
    [][\A o \in 1..Len(heap.objs) :
          /\ o <= Len(heap'.objs)
          /\ Snapshot(heap', o) = Snapshot(heap, o)]_heap

\* sort on L has built a new leg while M = L.conj() shares both arrays of L
C16_Witness ==
    /\ op = "sort" /\ recv = 1 /\ ctor = "LegCharge"
    /\ out.err = None /\ out.res > 2
    /\ heap.objs[2].charges = heap.objs[1].charges
    /\ heap.objs[2].slices = heap.objs[1].slices
    /\ val(heap, out.res).charges # val(heap, 1).charges

RECURSIVE concat_ranges(_, _)
concat_ranges(slices, qs) ==
    IF Len(qs) = 0 THEN <<>>
    ELSE LET b == slices[qs[1] + 1]
             e == slices[qs[1] + 2]
         IN  [i \in 1..(e - b) |-> b + i - 1] \o concat_ranges(slices, Tail(qs))

\* begend[perm_qind]: an index array is bounds-checked, negative entries count
\* from the end
wrap_index(i, n) == IF i < 0 THEN i + n ELSE i

perm_flat_from_perm_qind(self, perm_qind) ==
    IF \E k \in 1..Len(perm_qind) :
           perm_qind[k] >= self.block_number \/ perm_qind[k] < 0 - self.block_number
    THEN [err |-> "IndexError", res |-> <<>>]
    ELSE [err |-> None,
          res |-> concat_ranges(self.slices,
                      [k \in 1..Len(perm_qind) |->
                          wrap_index(perm_qind[k], self.block_number)])]

\* np.any(a != b): arrays of one length are compared entry by entry, an array
\* of length 1 is broadcast; for other shapes numpy either answers True or
\* raises ValueError itself, and the caller ends in a ValueError both ways
np_any_differ(a, b) ==
    IF Len(a) = Len(b) THEN \E j \in 1..Len(a) : a[j] # b[j]
    ELSE IF Len(a) = 1 THEN \E j \in 1..Len(b) : a[1] # b[j]
    ELSE IF Len(b) = 1 THEN \E j \in 1..Len(a) : a[j] # b[1]
    ELSE TRUE

\* perm_qind = perm_flat[self.slices[:-1]]
entries_at_starts(self, perm_flat) ==
    [q \in 1..self.block_number |-> perm_flat[self.slices[q] + 1]]

perm_qind_from_perm_flat(self, perm_flat) ==
    LET perm_qind == entries_at_starts(self, perm_flat)
        back == perm_flat_from_perm_qind(self, perm_qind)
    IN  IF back.err # None THEN [err |-> back.err, res |-> <<>>]
        ELSE IF np_any_differ(perm_flat, back.res)
        THEN [err |-> "ValueError", res |-> <<>>]
        ELSE [err |-> None, res |-> perm_qind]

\* the permutations of 0..n-1
Perms(n) == {p \in [1..n -> 0..(n - 1)] : \A i, j \in 1..n : p[i] = p[j] => i = j}

PermChinfo == ChargeInfo(<<3>>, <<"">>)

InitPerm ==
    /\ \E k \in 1..MaxBlocks :
         \E s \in BlockSizeVecs(k), ch \in [1..k -> Rows(PermChinfo)] :
            leg = from_qind(PermChinfo, cumsum0(s), ch, 1)
    /\ recv = leg /\ ctor = "from_qind"
    /\ op = "idle" /\ arg = None /\ out = None
    /\ other = None /\ alias = None /\ inlegs = None /\ pipe = None /\ chi = None
    /\ heap = None

PermCalled(name, a, r) ==
    /\ op' = name
    /\ arg' = a
    /\ out' = r
    /\ UNCHANGED <<leg, recv, ctor, other, alias, inlegs, pipe, chi, heap>>

PermFlatFromPermQind ==
    /\ op = "idle"
    /\ \E p \in Perms(leg.block_number) :
         PermCalled("perm_flat_from_perm_qind", p, perm_flat_from_perm_qind(leg, p))

\* the flat permutation just computed is converted back
PermQindOfResult ==
    /\ op = "perm_flat_from_perm_qind" /\ out.err = None
    /\ PermCalled("round_trip", [perm_qind |-> arg, perm_flat |-> out.res],
                  perm_qind_from_perm_flat(leg, out.res))

PermQindFromPermFlat ==
    /\ op = "idle"
    /\ \E f \in Perms(leg.ind_len) :
         PermCalled("perm_qind_from_perm_flat", f, perm_qind_from_perm_flat(leg, f))

NextPerm ==
    \/ PermFlatFromPermQind
    \/ PermQindOfResult
    \/ PermQindFromPermFlat

SpecPerm == InitPerm /\ [][NextPerm]_vars

\* the block that holds the flat index x
BlockOf(self, x) ==
    CHOOSE b \in 0..(self.block_number - 1) :
        self.slices[b + 1] <= x /\ x < self.slices[b + 2]

\* the flat permutation f puts an index of another block between two indices
\* of one block
MixesBlocks(self, f) ==
    \E i, j, k \in 1..Len(f) :
        /\ i < j /\ j < k
        /\ BlockOf(self, f[i]) = BlockOf(self, f[k])
        /\ BlockOf(self, f[j]) # BlockOf(self, f[i])

\* C18: for every leg, also with blocks larger than one index, and every
\* permutation p of its blocks, perm_qind_from_perm_flat gives p back from
\* perm_flat_from_perm_qind(p); a flat permutation that mixes the indices of
\* different blocks raises ValueError.
C18_PermRoundTrip ==
    /\ op = "round_trip" => (out.err = None /\ out.res = arg.perm_qind)
    /\ (op = "perm_qind_from_perm_flat" /\ MixesBlocks(leg, arg)) =>
           out.err = "ValueError"

(***************************************************************************)
(* The sorted and bunched flags along a chain of operations                *)
(***************************************************************************)
\* np.argsort of distinct values
argsort(a) ==
    CHOOSE p \in [1..Len(a) -> 0..(Len(a) - 1)] :
        /\ \A i, j \in 1..Len(a) : p[i] = p[j] => i = j
        /\ \A i \in 1..(Len(a) - 1) : a[p[i] + 1] < a[p[i + 1] + 1]

\* from_qdict(chargeinfo, qdict, qconj); qdict is the list of its items
\* [charge, start, stop] in the order the dict yields them, the starts distinct
from_qdict(chargeinfo, qdict, qconj) ==
    LET sort == argsort([i \in 1..Len(qdict) |-> qdict[i].start])
        slices2 == Take(qdict, sort)
        charges == [i \in 1..Len(slices2) |-> slices2[i].charge]
    IN  IF \E i \in 1..(Len(slices2) - 1) : slices2[i].stop # slices2[i + 1].start
        THEN [err |-> "ValueError", leg |-> None]
        ELSE LET slices == [i \in 1..(Len(slices2) + 1) |->
                               IF i <= Len(slices2) THEN slices2[i].start
                               ELSE slices2[Len(slices2)].stop]
                 r == LegCharge_new(chargeinfo, slices, charges, qconj)
             IN  IF r.err # None THEN [err |-> r.err, leg |-> None]
                 ELSE [err |-> None,
                       leg |-> [r.leg EXCEPT !.sorted = TRUE,
                                             !.bunched = is_bunched(r.leg)]]

\* the qdict with the k charges ch on blocks of the sizes s, its items in the
\* order p; with gap = 1 the last block is moved up by one index
QdictOf(s, ch, p, gap) ==
    [i \in 1..Len(p) |->
        LET q == p[i] + 1
            g == IF q = Len(s) THEN gap ELSE 0
        IN  [charge |-> ch[q], start |-> cumsum0(s)[q] + g,
             stop |-> cumsum0(s)[q + 1] + g]]

\* k distinct charge rows: the keys of a dict
DistinctRows(ci, k) ==
    {c \in [1..k -> Rows(ci)] : \A i, j \in 1..k : c[i] = c[j] => i = j}

InitFlags ==
    /\ \E ci \in LegChinfos, qc \in {1, 0 - 1} :
         \/ \E k \in 1..MaxBlocks :
              \/ \E s \in BlockSizeVecs(k), ch \in [1..k -> Rows(ci)] :
                   /\ leg = from_qind(ci, cumsum0(s), ch, qc)
                   /\ ctor = "from_qind"
              \/ \E qflat \in [1..k -> Rows(ci)] :
                   /\ leg = from_qflat(ci, qflat, qc)
                   /\ ctor = "from_qflat"
         \/ \E k \in 1..MaxBlocks :
              \E s \in BlockSizeVecs(k), ch \in DistinctRows(ci, k),
                 p \in Perms(k), gap \in {0, 1} :
                   /\ from_qdict(ci, QdictOf(s, ch, p, gap), qc).err = None
                   /\ leg = from_qdict(ci, QdictOf(s, ch, p, gap), qc).leg
                   /\ ctor = "from_qdict"
    /\ recv = leg
    /\ op = "idle" /\ arg = None /\ out = None
    /\ other = None /\ alias = None /\ inlegs = None /\ pipe = None /\ chi = None
    /\ heap = None

NextFlags == Sort \/ Bunch \/ Project \/ Conj \/ Continue

SpecFlags == InitFlags /\ [][NextFlags]_vars

\* C19: on every leg built by from_qflat, from_qind or from_qdict and on every
\* leg that sort(bunch=True), sort(bunch=False), bunch, project and conj make
\* of it, bunched = TRUE implies that no two neighbouring blocks have the same
\* charge row, and sorted and bunched both TRUE imply that the charge rows are
\* pairwise distinct.
C19_BunchedTruthful ==
    /\ leg.bunched =>
         \A k \in 1..(Len(leg.charges) - 1) : leg.charges[k] # leg.charges[k + 1]
    /\ (leg.sorted /\ leg.bunched) =>
         \A i, j \in 1..Len(leg.charges) : leg.charges[i] = leg.charges[j] => i = j

\* C20: on every leg built by a constructor, from_qdict included, and on every
\* leg that sort, bunch, project and conj make of it, sorted = TRUE implies
\* that the charge rows are in lexicographic order.
C20_SortedTruthful == leg.sorted => NonDecreasing(leg.charges)

\* the charge rows of the leg are pairwise distinct
FullyBlocked(l) ==
    \A i, j \in 1..Len(l.charges) : l.charges[i] = l.charges[j] => i = j

\* C21: the leg P returned by L.project(mask) has bunched = TRUE if and only
\* if P itself, the emptied blocks dropped, is fully blocked by charge: its
\* remaining charge rows are pairwise distinct.
C21_ProjectBunched ==
    (op = "project" /\ out.err = None) => (leg.bunched <=> FullyBlocked(leg))

(***************************************************************************)
(* Constructing a LegCharge from charges of the full width of QTYPE        *)
(*                                                                         *)
(* The charges are two-limb values, as in make_valid and check_valid.      *)
(***************************************************************************)
\* LegCharge.test_sanity on a leg whose charges are two-limb values
LegCharge_test_sanity64(self) ==
    /\ Len(self.slices) = self.block_number + 1
    /\ self.slices[1] = 0
    /\ \A i \in 1..Len(self.charges) : Len(self.charges[i]) = self.chinfo.qnumber
    /\ check_valid(wide_mod(self.chinfo), self.charges)
    /\ ~(self.qconj # -1 /\ self.qconj # 1)

\* LegCharge(chargeinfo, slices, charges, qconj)
LegCharge_new64(chargeinfo, slices, charges, qconj) ==
    LET self == LegCharge_init(chargeinfo, slices, charges, qconj)
    IN  [err |-> IF LegCharge_test_sanity64(self) THEN None ELSE "ValueError",
         leg |-> self]

\* -1, 0, 2, 3, 2^31, 2^32 and 2^32 + 2
QtypeValues ==
    {wide(0 - 1), wide(0), wide(2), wide(3), <<32768, 0>>, <<65536, 0>>, <<65536, 2>>}

InitCtor64 ==
    /\ \E ci \in CtorChinfos, qconj \in {1, 0 - 1} :
         \E slices \in UNION {[1..n -> 0..2] : n \in 1..3},
            charges \in UNION {[1..k -> [1..ci.qnumber -> QtypeValues]] :
                                  k \in 1..(3 - ci.qnumber)} :
            arg = [chargeinfo |-> ci, slices |-> slices,
                   charges |-> charges, qconj |-> qconj]
    /\ op = "idle" /\ out = None
    /\ leg = None /\ recv = None /\ ctor = None
    /\ other = None /\ alias = None /\ inlegs = None /\ pipe = None /\ chi = None
    /\ heap = None

NewLegCharge64 ==
    Constructed("LegCharge",
                LegCharge_new64(arg.chargeinfo, arg.slices, arg.charges, arg.qconj))

NextCtor64 == NewLegCharge64

SpecCtor64 == InitCtor64 /\ [][NextCtor64]_vars

\* C23: every leg a constructor returns, and every leg that sort, bunch,
\* project, conj and outer_conj make of it, is well formed: slices[0] = 0,
\* len(slices) = block_number + 1, charges has block_number rows,
\* ind_len = slices[-1] = the sum of the block sizes, every charge row is in
\* reduced form (0 <= charge < mod wherever mod is not 1, and check_valid is
\* true) and qconj is +1 or -1.  Stated here of the legs as the constructor
\* returns them.
C23_WellFormed ==
    (op = "LegCharge" /\ out.err = None) =>
        LET l == out.leg
        IN  /\ l.slices[1] = 0
            /\ Len(l.slices) = l.block_number + 1
            /\ Len(l.charges) = l.block_number
            /\ l.ind_len = l.slices[Len(l.slices)]
            /\ l.ind_len = SeqSum(get_block_sizes(l))
            /\ \A i \in 1..Len(l.charges) : \A j \in 1..l.chinfo.qnumber :
                 \/ l.chinfo.mod[j] = 1
                 \/ /\ ~wlt(l.charges[i][j], wide(0))
                    /\ wlt(l.charges[i][j], wide(l.chinfo.mod[j]))
            /\ check_valid(wide_mod(l.chinfo), l.charges)
            /\ l.qconj \in {1, 0 - 1}

(***************************************************************************)
(* charge_sectors of the pipe outer_conj returns                           *)
(***************************************************************************)
\* LegCharge.charge_sectors: the rows are sorted unless the leg says it is sorted
charge_sectors(self) ==
    LET charges == IF ~self.sorted
                   THEN Take(self.charges, lexsort(self.charges))
                   ELSE self.charges
        d == c_find_row_differences(charges, self.chinfo.qnumber)
    IN  IF d.err # None THEN [err |-> d.err, res |-> <<>>]
        ELSE [err |-> None, res |-> Take(charges, SubSeq(d.res, 1, Len(d.res) - 1))]

\* rows are the distinct rows of charges, in lexicographic order
DistinctInOrder(rows, charges) ==
    /\ {rows[k] : k \in 1..Len(rows)} = {charges[i] : i \in 1..Len(charges)}
    /\ \A k \in 1..(Len(rows) - 1) : RowLess(rows[k], rows[k + 1])

\* C24: for a pipe P built with sort=True, R = P.outer_conj() is a pipe whose
\* sorted flag is true only if its charges, the negated and reduced charges
\* of P, are in lexicographic order, and R.charge_sectors() returns the
\* distinct charge rows of R in lexicographic order.
C24_OuterConjSorted ==
    (op = "outer_conj" /\ ctor = "LegPipe" /\ recv.sorted) =>
        /\ out.err = None
        /\ out.pipe.sorted => NonDecreasing(out.pipe.charges)
        /\ charge_sectors(out.pipe).err = None
        /\ DistinctInOrder(charge_sectors(out.pipe).res, out.pipe.charges)

=============================================================================
